---- MODULE Spec2Model ----
(***************************************************************************)
(* The upload page of ML-App (frontend/src/routes/+page.svelte): the file  *)
(* intake (picker / drop), validateAndSet, the preview object URL, reset   *)
(* and the asynchronous submit() with its two suspension points            *)
(* (await fetch, await res.json()).                                        *)
(*                                                                         *)
(* One step of the model is one task of the browser's event loop: a DOM    *)
(* event with every handler it reaches, or the continuation of submit()    *)
(* after one of its awaits. Svelte flushes the DOM (the disabled           *)
(* attributes, the {#if previewUrl} block) in a microtask, so every event  *)
(* sees the affordances that the current state renders.                    *)
(*                                                                         *)
(* The user-facing messages of the source are Thai; the module's strings   *)
(* are ASCII, so each message is written as its English gloss. The size    *)
(* message is still built from MAX_SIZE_MB as the template literal does.   *)
(***************************************************************************)
EXTENDS Integers, Sequences, FiniteSets, TLC

VARIABLES
    file,        \* let file: File | null
    previewUrl,  \* let previewUrl: string | null  (n stands for "blob:n", 0 for null)
    error,       \* let error = ''
    uploading,   \* let uploading = false
    dragActive,  \* let dragActive = false
    inflight,    \* the suspended invocations of submit(), oldest first
    live,        \* object URLs created and not yet revoked (the browser's blob URL store)
    nextUrl,     \* number of object URLs created so far
    lastOp,      \* history: the event or continuation that made the last step
    prevOp,      \* history: the name of the one before it
    effects,     \* history: the side effects of the last step, in program order
    answer,      \* history: what the await resumed in the last step delivered
    result       \* the data of the result view, once its load() has run

vars == <<file, previewUrl, error, uploading, dragActive, inflight, live, nextUrl,
          lastOp, prevOp, effects, answer, result>>

-----------------------------------------------------------------------------
(* Bounds of the model *)

\* Object URLs the session may create (caps the counter nextUrl).
MaxUrls == 3
\* Suspended submit() invocations when submit() is called directly (SpecCalls).
MaxInFlight == 2

-----------------------------------------------------------------------------
(* Program constants and values *)

MAX_SIZE_MB == 10
ACCEPT == <<"image/jpeg", "image/png", "image/webp">>

\* Array.prototype.includes
Includes(arr, x) == \E i \in 1..Len(arr) : arr[i] = x

\* const maxBytes = MAX_SIZE_MB * 1024 * 1024
maxBytes == MAX_SIZE_MB * 1024 * 1024

\* null of `File | null`, a record so that it compares with File values
NULL == [type |-> "null", size |-> 0]
\* null of `string | null` for previewUrl
NullUrl == 0

\* The File values an acquisition event may carry (type, size in bytes).
File(type, size) == [type |-> type, size |-> size]
MiB == 1024 * 1024
Files ==
    { File("image/png", 2 * MiB), File("image/jpeg", maxBytes), File("image/webp", maxBytes),
      File("image/png", maxBytes + 1), File("image/jpeg", 12 * MiB),
      File("image/gif", 2 * MiB), File("image/gif", 12 * MiB) }

\* The messages assigned to `error`.
TypeMsg == "only .jpg .png .webp are supported"
SizeMsg == "file larger than " \o ToString(MAX_SIZE_MB) \o "MB"
NoFileMsg == "please choose an image file"
GenericMsg == "upload failed"

-----------------------------------------------------------------------------
(* Strings that are taken apart: sequences of one-character strings *)

Letters == {"a", "b", "c", "d", "e", "f", "g", "h", "i", "j", "k", "l", "m",
            "n", "o", "p", "q", "r", "s", "t", "u", "v", "w", "x", "y", "z"}
Digits == {"0", "1", "2", "3", "4", "5", "6", "7", "8", "9"}

\* the string made of the characters cs
RECURSIVE Join(_)
Join(cs) == IF Len(cs) = 0 THEN "" ELSE Head(cs) \o Join(Tail(cs))

\* the pieces of cs between the occurrences of the character sep
RECURSIVE Split(_, _)
Split(cs, sep) ==
    IF \A i \in 1..Len(cs) : cs[i] # sep THEN <<cs>>
    ELSE LET i == CHOOSE k \in 1..Len(cs) : cs[k] = sep /\ \A j \in 1..(k - 1) : cs[j] # sep
         IN  <<SubSeq(cs, 1, i - 1)>> \o Split(SubSeq(cs, i + 1, Len(cs)), sep)

\* the concatenation of the sequences in css, with sep between them
RECURSIVE JoinWith(_, _)
JoinWith(css, sep) ==
    IF Len(css) = 0 THEN <<>>
    ELSE IF Len(css) = 1 THEN css[1]
    ELSE css[1] \o sep \o JoinWith(Tail(css), sep)

\* A URL: its path and the characters of its query (after the "?").
Url(path, query) == [path |-> path, query |-> query]
NoUrl == Url("", <<>>)

-----------------------------------------------------------------------------
(* Side effects, recorded per step *)

Eff(kind, url, f, to) == [kind |-> kind, url |-> url, file |-> f, to |-> to]
Revoke(url) == Eff("revoke", url, NULL, NoUrl)
Create(url) == Eff("create", url, NULL, NoUrl)
Fetch(f) == Eff("fetch", NullUrl, f, Url("/predict", <<>>))
Goto(to) == Eff("goto", NullUrl, NULL, to)
\* a call of fileInput.click()
InputClick == Eff("click", NullUrl, NULL, NoUrl)
\* the browser shows the file picker
Dialog == Eff("dialog", NullUrl, NULL, NoUrl)
\* a call of res.json()
ParseBody == Eff("json", NullUrl, NULL, NoUrl)

OfKind(effs, kind) == SelectSeq(effs, LAMBDA e : e.kind = kind)

-----------------------------------------------------------------------------
(* What the prediction service and the browser may answer *)

\* JSON values of the response body's fields; undefined is a missing field.
Undef == [t |-> "undefined", s |-> <<>>, n |-> 0]
\* a string, as its characters
Str(s) == [t |-> "string", s |-> s, n |-> 0]
\* a number, in hundredths (87 is 0.87)
Num(n) == [t |-> "number", s |-> <<>>, n |-> n]

\* Response bodies that parse as an object.
Datas == [label : {Undef, Str(<<"c", "r", "a", "c", "k">>),
                   Str(<<"n", "o", " ", "c", "r", "a", "c", "k">>)},
          prob : {Undef, Num(87), Num(50)},
          request_id : {Undef, Str(<<"a", "b", "c", "1", "2", "3">>)}]

\* HTTP statuses a settled fetch may carry; res.ok is status in 200..299.
Statuses == {200, 404, 500}
ResOk(status) == status >= 200 /\ status <= 299

\* Values a rejected fetch() or res.json() throws: Error objects, whose message
\* is a string.
Thrown(message) == [hasMessage |-> TRUE, message |-> message]
FetchThrows == {Thrown("Failed to fetch")}
JsonThrows == {Thrown("Unexpected end of JSON input")}
\* data.label with data = null (the body is the JSON text null)
NullBodyThrows == Thrown("Cannot read properties of null (reading 'label')")

\* What the await of the last step delivered (history).
Answer(kind, status, message, data) ==
    [kind |-> kind, status |-> status, message |-> message, data |-> data]
NoData == [label |-> Undef, prob |-> Undef, request_id |-> Undef]
NoAnswer == Answer("none", 0, "", NoData)
Rejected(e) == Answer("throw", 0, e.message, NoData)
Responded(status) == Answer("response", status, "", NoData)
Parsed(data) == Answer("data", 0, "", data)
ParsedNull == Answer("null", 0, "", NoData)

\* String(x) of a number given in hundredths, 0..199
Digit(d) == ToString(d)
NumToString(n) ==
    IF n % 100 = 0 THEN <<ToString(n \div 100)>>
    ELSE IF n % 10 = 0 THEN <<ToString(n \div 100), ".", Digit((n % 100) \div 10)>>
    ELSE <<ToString(n \div 100), ".", Digit((n % 100) \div 10), Digit(n % 10)>>

\* the field passed on without `?? ''`: URLSearchParams writes undefined out
OrEmpty_NoDefault(v) ==
    IF v.t = "undefined" THEN <<"u", "n", "d", "e", "f", "i", "n", "e", "d">> ELSE v.s

\* v ?? '' for a field that holds a string when present
OrEmpty(v) == IF v.t = "undefined" THEN <<>> ELSE v.s
\* String(v ?? '')
StringOrEmpty(v) ==
    IF v.t = "undefined" THEN <<>>
    ELSE IF v.t = "number" THEN NumToString(v.n)
    ELSE v.s

\* The application/x-www-form-urlencoded serializer of URLSearchParams: letters,
\* digits and * - . _ stay, a space becomes +, any other character is
\* percent-encoded.
PercentEncoded(c) ==
    CASE c = "&" -> <<"%", "2", "6">>
      [] c = "=" -> <<"%", "3", "D">>
      [] c = "+" -> <<"%", "2", "B">>
      [] c = "%" -> <<"%", "2", "5">>
      [] c = "?" -> <<"%", "3", "F">>
      [] c = "/" -> <<"%", "2", "F">>
RECURSIVE UrlEncode(_)
UrlEncode(cs) ==
    IF Len(cs) = 0 THEN <<>>
    ELSE (IF Head(cs) = " " THEN <<"+">>
          ELSE IF Head(cs) \in Letters \cup Digits \cup {"*", "-", ".", "_"} THEN <<Head(cs)>>
          ELSE PercentEncoded(Head(cs)))
         \o UrlEncode(Tail(cs))

\* the third parameter named request_id, as the response field is
QueryString_RequestId(data) ==
    JoinWith(<< <<"l", "a", "b", "e", "l">> \o <<"=">> \o UrlEncode(OrEmpty(data.label)),
                <<"p", "r", "o", "b">> \o <<"=">> \o UrlEncode(StringOrEmpty(data.prob)),
                <<"r", "e", "q", "u", "e", "s", "t", "_", "i", "d">> \o <<"=">>
                    \o UrlEncode(OrEmpty(data.request_id)) >>,
             <<"&">>)

\* new URLSearchParams({label, prob, id}).toString(): the pairs in insertion
\* order, name=value joined by &
QueryString(data) ==
    JoinWith(<< <<"l", "a", "b", "e", "l">> \o <<"=">> \o UrlEncode(OrEmpty(data.label)),
                <<"p", "r", "o", "b">> \o <<"=">> \o UrlEncode(StringOrEmpty(data.prob)),
                <<"i", "d">> \o <<"=">> \o UrlEncode(OrEmpty(data.request_id)) >>,
             <<"&">>)

\* error = e?.message ?? GenericMsg
CatchMessage(e) == IF e.hasMessage THEN e.message ELSE GenericMsg

-----------------------------------------------------------------------------
(* The result view: export const load = ({ url }) => ... *)

\* JavaScript numbers, in hundredths, and NaN
Number(n) == [nan |-> FALSE, n |-> n]
NaN == [nan |-> TRUE, n |-> 0]

DigitVal(c) == CHOOSE d \in 0..9 : ToString(d) = c

\* the length of the longest prefix of cs made of digits
RECURSIVE DigitsPrefix(_)
DigitsPrefix(cs) ==
    IF Len(cs) = 0 \/ Head(cs) \notin Digits THEN 0 ELSE 1 + DigitsPrefix(Tail(cs))

\* the value of a sequence of digits
RECURSIVE DigitsValue(_)
DigitsValue(cs) ==
    IF Len(cs) = 0 THEN 0
    ELSE 10 * DigitsValue(SubSeq(cs, 1, Len(cs) - 1)) + DigitVal(cs[Len(cs)])

RECURSIVE TrimLeft(_)
TrimLeft(cs) == IF Len(cs) > 0 /\ Head(cs) = " " THEN TrimLeft(Tail(cs)) ELSE cs

\* parseFloat(): the longest prefix, after leading blanks, that reads as a
\* decimal literal (sign, digits, fraction), NaN when there is none; the value
\* keeps two decimals
parseFloat(cs) ==
    LET t == TrimLeft(cs)
        neg == Len(t) > 0 /\ t[1] = "-"
        u == IF Len(t) > 0 /\ t[1] \in {"+", "-"} THEN Tail(t) ELSE t
        k == DigitsPrefix(u)
        r == SubSeq(u, k + 1, Len(u))
        fk == IF Len(r) > 0 /\ r[1] = "." THEN DigitsPrefix(Tail(r)) ELSE 0
        frac == SubSeq(SubSeq(r, 2, 1 + fk) \o <<"0", "0">>, 1, 2)
        mag == 100 * DigitsValue(SubSeq(u, 1, k)) + DigitsValue(frac)
    IN  IF k = 0 /\ fk = 0 THEN NaN ELSE Number(IF neg THEN 0 - mag ELSE mag)

\* The application/x-www-form-urlencoded parser behind url.searchParams: + is a
\* space, %XX is the character it encodes.
PercentCodes == {<<"%", "2", "6">>, <<"%", "3", "D">>, <<"%", "2", "B">>,
                 <<"%", "2", "5">>, <<"%", "3", "F">>, <<"%", "2", "F">>}
PercentDecoded(code) ==
    CHOOSE c \in {"&", "=", "+", "%", "?", "/"} : PercentEncoded(c) = code
RECURSIVE UrlDecode(_)
UrlDecode(cs) ==
    IF Len(cs) = 0 THEN <<>>
    ELSE IF Head(cs) = "+" THEN <<" ">> \o UrlDecode(Tail(cs))
    ELSE IF Len(cs) >= 3 /\ SubSeq(cs, 1, 3) \in PercentCodes
         THEN <<PercentDecoded(SubSeq(cs, 1, 3))>> \o UrlDecode(SubSeq(cs, 4, Len(cs)))
    ELSE <<Head(cs)>> \o UrlDecode(Tail(cs))

\* the name=value pairs of a query, decoded; empty pieces are skipped and a
\* piece is cut at its first =
SearchParams(query) ==
    LET pieces == SelectSeq(Split(query, "&"), LAMBDA piece : Len(piece) > 0)
    IN  [i \in 1..Len(pieces) |->
            LET parts == Split(pieces[i], "=")
            IN  [name |-> UrlDecode(parts[1]),
                 value |-> UrlDecode(JoinWith(Tail(parts), <<"=">>))]]

\* url.searchParams.get(name): the first value of that name, or null
SearchParamsGet(query, name) ==
    LET hits == SelectSeq(SearchParams(query), LAMBDA pair : pair.name = name)
    IN  IF Len(hits) = 0 THEN [found |-> FALSE, value |-> <<>>]
        ELSE [found |-> TRUE, value |-> hits[1].value]

\* what the result view shows before load() has run
NoResult == [loaded |-> FALSE, label |-> <<>>, prob |-> Number(0)]

\* load({ url }): { label, prob }
load(url) ==
    LET l == SearchParamsGet(url.query, <<"l", "a", "b", "e", "l">>)
        q == SearchParamsGet(url.query, <<"p", "r", "o", "b">>)
    IN  [loaded |-> TRUE,
         label |-> IF l.found THEN l.value ELSE <<>>,
         prob |-> parseFloat(IF q.found THEN q.value ELSE <<"0">>)]

-----------------------------------------------------------------------------
(* The functions of the component *)

\* reset() without the `if (previewUrl)` test: revokeObjectURL is called on null too
reset_RevokeAlways(after) ==
    /\ error' = ""
    /\ file' = NULL
    /\ live' = live \ {previewUrl}
    /\ previewUrl' = NullUrl
    /\ effects' = <<Revoke(previewUrl)>> \o after
    /\ UNCHANGED <<uploading, inflight, nextUrl>>

\* reset() without `file = null`
reset_KeepsFile(after) ==
    /\ error' = ""
    /\ live' = IF previewUrl # NullUrl THEN live \ {previewUrl} ELSE live
    /\ previewUrl' = NullUrl
    /\ effects' = (IF previewUrl # NullUrl THEN <<Revoke(previewUrl)>> ELSE <<>>) \o after
    /\ UNCHANGED <<file, uploading, inflight, nextUrl>>

\* function reset(); `after`: the effects of the handlers the same event
\* reaches after reset() returns
reset(after) ==
    /\ error' = ""
    /\ file' = NULL
    /\ live' = IF previewUrl # NullUrl THEN live \ {previewUrl} ELSE live
    /\ previewUrl' = NullUrl
    /\ effects' = (IF previewUrl # NullUrl THEN <<Revoke(previewUrl)>> ELSE <<>>) \o after
    /\ UNCHANGED <<uploading, inflight, nextUrl>>

\* the type test dropped
TypeRejected_Never(f) == FALSE

\* if (!ACCEPT.includes(f.type))
TypeRejected(f) == ~Includes(ACCEPT, f.type)
\* the size test dropped
SizeRejected_Never(f) == FALSE
\* the size test written with >=
SizeRejected_Geq(f) == f.size >= maxBytes

\* if (f.size > maxBytes)
SizeRejected(f) == f.size > maxBytes

\* validateAndSet() that assigns previewUrl without revoking the previous one
validateAndSet_NoRevoke(f) ==
    /\ IF f = NULL
         THEN /\ error' = ""
              /\ effects' = <<>>
              /\ UNCHANGED <<file, previewUrl, live, nextUrl>>
         ELSE IF ~Includes(ACCEPT, f.type)
         THEN /\ error' = TypeMsg
              /\ effects' = <<>>
              /\ UNCHANGED <<file, previewUrl, live, nextUrl>>
         ELSE IF f.size > maxBytes
         THEN /\ error' = SizeMsg
              /\ effects' = <<>>
              /\ UNCHANGED <<file, previewUrl, live, nextUrl>>
         ELSE /\ nextUrl < MaxUrls
              /\ error' = ""
              /\ file' = f
              /\ nextUrl' = nextUrl + 1
              /\ previewUrl' = nextUrl + 1
              /\ live' = live \cup {nextUrl + 1}
              /\ effects' = <<Create(nextUrl + 1)>>
    /\ UNCHANGED <<uploading, inflight>>

\* validateAndSet() that discards the current file and preview on a rejection
validateAndSet_ClearOnReject(f) ==
    /\ IF f = NULL
         THEN /\ error' = ""
              /\ effects' = <<>>
              /\ UNCHANGED <<file, previewUrl, live, nextUrl>>
         ELSE IF ~Includes(ACCEPT, f.type) \/ f.size > maxBytes
         THEN /\ error' = (IF ~Includes(ACCEPT, f.type) THEN TypeMsg ELSE SizeMsg)
              /\ file' = NULL
              /\ previewUrl' = NullUrl
              /\ live' = IF previewUrl # NullUrl THEN live \ {previewUrl} ELSE live
              /\ effects' = IF previewUrl # NullUrl THEN <<Revoke(previewUrl)>> ELSE <<>>
              /\ UNCHANGED nextUrl
         ELSE /\ nextUrl < MaxUrls
              /\ error' = ""
              /\ file' = f
              /\ nextUrl' = nextUrl + 1
              /\ previewUrl' = nextUrl + 1
              /\ live' = (IF previewUrl # NullUrl THEN live \ {previewUrl} ELSE live)
                             \cup {nextUrl + 1}
              /\ effects' = (IF previewUrl # NullUrl THEN <<Revoke(previewUrl)>> ELSE <<>>)
                                \o <<Create(nextUrl + 1)>>
    /\ UNCHANGED <<uploading, inflight>>

\* validateAndSet() that treats an empty selection as a request to clear
validateAndSet_EmptyClears(f) ==
    /\ IF f = NULL
         THEN /\ error' = ""
              /\ file' = NULL
              /\ previewUrl' = NullUrl
              /\ live' = IF previewUrl # NullUrl THEN live \ {previewUrl} ELSE live
              /\ effects' = IF previewUrl # NullUrl THEN <<Revoke(previewUrl)>> ELSE <<>>
              /\ UNCHANGED nextUrl
         ELSE IF ~Includes(ACCEPT, f.type)
         THEN /\ error' = TypeMsg
              /\ effects' = <<>>
              /\ UNCHANGED <<file, previewUrl, live, nextUrl>>
         ELSE IF f.size > maxBytes
         THEN /\ error' = SizeMsg
              /\ effects' = <<>>
              /\ UNCHANGED <<file, previewUrl, live, nextUrl>>
         ELSE /\ nextUrl < MaxUrls
              /\ error' = ""
              /\ file' = f
              /\ nextUrl' = nextUrl + 1
              /\ previewUrl' = nextUrl + 1
              /\ live' = (IF previewUrl # NullUrl THEN live \ {previewUrl} ELSE live)
                             \cup {nextUrl + 1}
              /\ effects' = (IF previewUrl # NullUrl THEN <<Revoke(previewUrl)>> ELSE <<>>)
                                \o <<Create(nextUrl + 1)>>
    /\ UNCHANGED <<uploading, inflight>>

\* function validateAndSet(f: File | null)
validateAndSet(f) ==
    /\ IF f = NULL
         THEN /\ error' = ""
              /\ effects' = <<>>
              /\ UNCHANGED <<file, previewUrl, live, nextUrl>>
         ELSE IF TypeRejected(f)
         THEN /\ error' = TypeMsg
              /\ effects' = <<>>
              /\ UNCHANGED <<file, previewUrl, live, nextUrl>>
         ELSE IF SizeRejected(f)
         THEN /\ error' = SizeMsg
              /\ effects' = <<>>
              /\ UNCHANGED <<file, previewUrl, live, nextUrl>>
         ELSE /\ nextUrl < MaxUrls
              /\ error' = ""
              /\ file' = f
              /\ nextUrl' = nextUrl + 1
              /\ previewUrl' = nextUrl + 1
              /\ live' = (IF previewUrl # NullUrl THEN live \ {previewUrl} ELSE live)
                             \cup {nextUrl + 1}
              /\ effects' = (IF previewUrl # NullUrl THEN <<Revoke(previewUrl)>> ELSE <<>>)
                                \o <<Create(nextUrl + 1)>>
    /\ UNCHANGED <<uploading, inflight>>

\* submit() with `uploading = true` and the request moved above the file test
submit_UploadingFirst ==
    /\ error' = IF file = NULL THEN NoFileMsg ELSE ""
    /\ uploading' = TRUE
    /\ inflight' = Append(inflight, [file |-> file, pc |-> "fetch"])
    /\ effects' = <<Fetch(file)>>
    /\ UNCHANGED <<file, previewUrl, live, nextUrl, dragActive>>

\* submit() that clears the selection once the form holds the file
submit_ClearsFile ==
    /\ IF file = NULL
         THEN /\ error' = NoFileMsg
              /\ effects' = <<>>
              /\ UNCHANGED <<uploading, inflight, file>>
         ELSE /\ error' = ""
              /\ uploading' = TRUE
              /\ inflight' = Append(inflight, [file |-> file, pc |-> "fetch"])
              /\ effects' = <<Fetch(file)>>
              /\ file' = NULL
    /\ UNCHANGED <<previewUrl, live, nextUrl, dragActive>>

\* async function submit(), up to its first await: the request is issued
\* and the invocation suspends on fetch()
submit ==
    /\ IF file = NULL
         THEN /\ error' = NoFileMsg
              /\ effects' = <<>>
              /\ UNCHANGED <<uploading, inflight>>
         ELSE /\ error' = ""
              /\ uploading' = TRUE
              /\ inflight' = Append(inflight, [file |-> file, pc |-> "fetch"])
              /\ effects' = <<Fetch(file)>>
    /\ UNCHANGED <<file, previewUrl, live, nextUrl, dragActive>>

\* inflight without its i-th invocation
Without(i) == [j \in 1..(Len(inflight) - 1) |-> IF j < i THEN inflight[j] ELSE inflight[j + 1]]

\* the catch path without the finally block
submitCatch_NoFinally(i, e) ==
    /\ error' = (IF e.hasMessage THEN e.message ELSE GenericMsg)
    /\ inflight' = [j \in 1..(Len(inflight) - 1) |-> IF j < i THEN inflight[j] ELSE inflight[j + 1]]
    /\ effects' = <<>>
    /\ UNCHANGED uploading

\* the catch block keeping a message that is already shown
submitCatch_KeepsMessage(i, e) ==
    /\ error' = (IF error # "" THEN error ELSE IF e.hasMessage THEN e.message ELSE GenericMsg)
    /\ uploading' = FALSE
    /\ inflight' = [j \in 1..(Len(inflight) - 1) |-> IF j < i THEN inflight[j] ELSE inflight[j + 1]]
    /\ effects' = <<>>

\* catch (e) { error = ... } finally { uploading = false }: invocation i returns
submitCatch(i, e) ==
    /\ error' = CatchMessage(e)
    /\ uploading' = FALSE
    /\ inflight' = Without(i)
    /\ effects' = <<>>

\* submit() without `if (!res.ok) throw`: every response goes on to res.json()
submitAfterFetch_NoOkTest(i) ==
    \/ \E e \in FetchThrows : answer' = Rejected(e) /\ submitCatch(i, e)
    \/ \E status \in Statuses :
          /\ answer' = Responded(status)
          /\ inflight' = [inflight EXCEPT ![i].pc = "json"]
          /\ effects' = <<ParseBody>>
          /\ UNCHANGED <<error, uploading>>

\* fetch() of invocation i settles: it rejects, or resolves to a response whose
\* status is checked (throw new Error(`HTTP ${res.status}`)) before res.json()
submitAfterFetch(i) ==
    \/ \E e \in FetchThrows : answer' = Rejected(e) /\ submitCatch(i, e)
    \/ \E status \in Statuses :
          /\ answer' = Responded(status)
          /\ IF ~ResOk(status)
               THEN submitCatch(i, Thrown("HTTP " \o ToString(status)))
               ELSE /\ inflight' = [inflight EXCEPT ![i].pc = "json"]
                    /\ effects' = <<ParseBody>>
                    /\ UNCHANGED <<error, uploading>>

\* submit() with res.json() and the navigation outside the try block: what
\* they throw leaves submit() uncaught
submitAfterJson_Uncaught(i) ==
    \/ \E e \in JsonThrows :
          /\ answer' = Rejected(e)
          /\ inflight' = Without(i)
          /\ effects' = <<>>
          /\ UNCHANGED <<error, uploading>>
    \/ /\ answer' = ParsedNull
       /\ inflight' = Without(i)
       /\ effects' = <<>>
       /\ UNCHANGED <<error, uploading>>
    \/ \E data \in Datas :
          /\ answer' = Parsed(data)
          /\ effects' = <<Goto(Url("/result", QueryString(data)))>>
          /\ uploading' = FALSE
          /\ inflight' = Without(i)
          /\ UNCHANGED error

\* res.json() of invocation i settles: it rejects, or resolves to null (and
\* data.label throws), or resolves to data, and then goto(...) is called and
\* the finally block runs
submitAfterJson(i) ==
    \/ \E e \in JsonThrows : answer' = Rejected(e) /\ submitCatch(i, e)
    \/ answer' = ParsedNull /\ submitCatch(i, NullBodyThrows)
    \/ \E data \in Datas :
          /\ answer' = Parsed(data)
          /\ effects' = <<Goto(Url("/result", QueryString(data)))>>
          /\ uploading' = FALSE
          /\ inflight' = Without(i)
          /\ UNCHANGED error

-----------------------------------------------------------------------------
(* The affordances the markup renders *)

\* the Predict button disabled on a missing file only
PredictDisabled_FileOnly == file = NULL

\* disabled={uploading || !file} of the Predict button
PredictDisabled == uploading \/ file = NULL
\* disabled={uploading || !file} of the lower clear button
ClearDisabled == uploading \/ file = NULL
\* {#if previewUrl}: the preview block with its own clear button
PreviewShown == previewUrl # NullUrl

\* fileInput.click(): returns at once when the input's click-in-progress flag
\* is set; otherwise it dispatches a click at the input, which bubbles to the
\* dropzone's on:click (openFileDialog again, the flag set), and then the
\* input's activation behaviour shows the picker
RECURSIVE fileInputClick(_)
fileInputClick(inProgress) ==
    <<InputClick>> \o (IF inProgress THEN <<>> ELSE fileInputClick(TRUE) \o <<Dialog>>)

\* function openFileDialog(): fileInput?.click()
openFileDialog == fileInputClick(FALSE)

\* The upload page is shown: the navigation to the result view has not completed.
Mounted == ~result.loaded

Op(name, f) == [name |-> name, f |-> f, key |-> ""]
OpKey(name, key) == [name |-> name, f |-> NULL, key |-> key]
\* a task of the upload page that resumes no await
Step(name, f) ==
    /\ Mounted
    /\ lastOp' = Op(name, f)
    /\ prevOp' = lastOp.name
    /\ answer' = NoAnswer
    /\ UNCHANGED result
\* a task of the upload page that resumes an await
Resumed(name) ==
    /\ Mounted
    /\ lastOp' = Op(name, NULL)
    /\ prevOp' = lastOp.name
    /\ UNCHANGED result

-----------------------------------------------------------------------------
(* Events *)

\* on:change={onPick} of the file input; the selection may be empty
onPick ==
    \E f \in Files \cup {NULL} :
        /\ Step("onPick", f)
        /\ validateAndSet(f)
        /\ UNCHANGED dragActive

\* on:drop={onDrop} of the dropzone; the drop may carry no file
onDrop ==
    \E f \in Files \cup {NULL} :
        /\ Step("onDrop", f)
        /\ dragActive' = FALSE
        /\ validateAndSet(f)

onDragOver ==
    /\ Step("onDragOver", NULL)
    /\ dragActive' = TRUE
    /\ effects' = <<>>
    /\ UNCHANGED <<file, previewUrl, error, uploading, inflight, live, nextUrl>>

onDragLeave ==
    /\ Step("onDragLeave", NULL)
    /\ dragActive' = FALSE
    /\ effects' = <<>>
    /\ UNCHANGED <<file, previewUrl, error, uploading, inflight, live, nextUrl>>

\* click on the dropzone: on:click|stopPropagation={openFileDialog}
ClickDropzone ==
    /\ Step("ClickDropzone", NULL)
    /\ effects' = openFileDialog
    /\ UNCHANGED <<file, previewUrl, error, uploading, dragActive, inflight, live, nextUrl>>

\* keys pressed with the dropzone focused
Keys == {"Enter", " ", "Tab"}

\* on:keydown of the dropzone: Enter and Space open the dialog
KeydownDropzone ==
    \E key \in Keys :
        /\ Mounted
        /\ lastOp' = OpKey("KeydownDropzone", key)
        /\ prevOp' = lastOp.name
        /\ answer' = NoAnswer
        /\ effects' = IF key = "Enter" \/ key = " " THEN openFileDialog ELSE <<>>
        /\ UNCHANGED <<file, previewUrl, error, uploading, dragActive, inflight, live,
                       nextUrl, result>>

\* click on the Predict button
ClickPredict ==
    /\ ~PredictDisabled
    /\ Step("ClickPredict", NULL)
    /\ submit

\* click on the lower clear button
ClickClear ==
    /\ ~ClearDisabled
    /\ Step("ClickClear", NULL)
    /\ reset(<<>>)
    /\ UNCHANGED dragActive

\* the preview block's clear button opening the dialog itself after reset(),
\* on top of the click that bubbles to the dropzone
ClickPreviewClear_Reopens ==
    /\ PreviewShown
    /\ Step("ClickPreviewClear", NULL)
    /\ reset(openFileDialog \o openFileDialog)
    /\ UNCHANGED dragActive

\* click on the clear button inside the preview block, which has no disabled
\* attribute and sits inside the dropzone: the click runs reset() and then
\* bubbles to the dropzone's on:click
ClickPreviewClear ==
    /\ PreviewShown
    /\ Step("ClickPreviewClear", NULL)
    /\ reset(openFileDialog)
    /\ UNCHANGED dragActive

\* the fetch of a suspended submit() settles
FetchSettled ==
    \E i \in 1..Len(inflight) :
        /\ inflight[i].pc = "fetch"
        /\ Resumed("FetchSettled")
        /\ submitAfterFetch(i)
        /\ UNCHANGED <<file, previewUrl, live, nextUrl, dragActive>>

\* the body of a suspended submit() has been read
JsonSettled ==
    \E i \in 1..Len(inflight) :
        /\ inflight[i].pc = "json"
        /\ Resumed("JsonSettled")
        /\ submitAfterJson(i)
        /\ UNCHANGED <<file, previewUrl, live, nextUrl, dragActive>>

\* submit() and reset() called directly, whatever the buttons show
CallSubmit ==
    /\ file = NULL \/ Len(inflight) < MaxInFlight
    /\ Step("CallSubmit", NULL)
    /\ submit

CallReset ==
    /\ Step("CallReset", NULL)
    /\ reset(<<>>)
    /\ UNCHANGED dragActive

\* the navigation started by goto() in the last task completes: the result
\* view's load() runs on the URL and the upload page is left
LoadResult ==
    /\ Mounted
    /\ Len(OfKind(effects, "goto")) > 0
    /\ result' = load(OfKind(effects, "goto")[1].to)
    /\ lastOp' = Op("load", NULL)
    /\ prevOp' = lastOp.name
    /\ effects' = <<>>
    /\ UNCHANGED <<file, previewUrl, error, uploading, dragActive, inflight, live, nextUrl,
                   answer>>

-----------------------------------------------------------------------------
(* Specifications *)

Init ==
    /\ file = NULL
    /\ previewUrl = NullUrl
    /\ error = ""
    /\ uploading = FALSE
    /\ dragActive = FALSE
    /\ inflight = <<>>
    /\ live = {}
    /\ nextUrl = 0
    /\ lastOp = Op("init", NULL)
    /\ prevOp = "init"
    /\ effects = <<>>
    /\ answer = NoAnswer
    /\ result = NoResult

\* The page as the user drives it.
Next ==
    \/ onPick
    \/ onDrop
    \/ onDragOver
    \/ onDragLeave
    \/ ClickDropzone
    \/ KeydownDropzone
    \/ ClickPredict
    \/ ClickClear
    \/ ClickPreviewClear
    \/ FetchSettled
    \/ JsonSettled
    \/ LoadResult

Spec == Init /\ [][Next]_vars

\* The browser settles every fetch and every body read.
FairSpec == Spec /\ WF_vars(FetchSettled) /\ WF_vars(JsonSettled)

\* The component's functions called in any state, as a caller other than the
\* rendered buttons (a test, a parent component) may.
NextCalls ==
    \/ onPick
    \/ CallSubmit
    \/ CallReset
    \/ FetchSettled
    \/ JsonSettled

SpecCalls == Init /\ [][NextCalls]_vars

-----------------------------------------------------------------------------
(* Properties *)

AcquireOps == {"onPick", "onDrop"}
ResetOps == {"ClickClear", "ClickPreviewClear", "CallReset"}
SubmitOps == {"ClickPredict", "CallSubmit"}
SettleOps == {"FetchSettled", "JsonSettled"}

\* The Acceptance Policy as the specification states it.
PolicyAccepts(f) ==
    /\ f.type \in {"image/jpeg", "image/png", "image/webp"}
    /\ f.size <= 10 * 1024 * 1024

\* The last step was an acquisition that supplied f.
Acquired(f) == lastOp.name \in AcquireOps /\ lastOp.f = f

\* The object URLs live before the given effects ran, from those live after them.
RECURSIVE LiveBefore(_, _)
LiveBefore(lv, effs) ==
    IF Len(effs) = 0 THEN lv
    ELSE LET e == effs[Len(effs)]
             rest == SubSeq(effs, 1, Len(effs) - 1)
         IN  LiveBefore(IF e.kind = "create" THEN lv \ {e.url}
                        ELSE IF e.kind = "revoke" THEN lv \cup {e.url}
                        ELSE lv, rest)

\* The object URLs live after the first k effects of the last step.
LiveAt(k) == LiveBefore(live, SubSeq(effects, k + 1, Len(effects)))

\* C1: at most one preview object URL is live, in every state and between the
\* effects of every step, and a live URL is the one previewUrl holds: no URL
\* leaves previewUrl without having been revoked.
C1_AtMostOneLivePreview ==
    /\ NullUrl \notin live
    /\ live \subseteq {previewUrl}
    /\ \A k \in 0..Len(effects) : Cardinality(LiveAt(k)) <= 1

\* C1 witness: an accepted file has replaced an accepted file, the old URL
\* revoked before the new one was created.
C1_Witness ==
    /\ lastOp.name \in AcquireOps
    /\ Len(effects) = 2
    /\ effects[1].kind = "revoke"
    /\ effects[2] = Create(previewUrl)
    /\ live = {previewUrl}

\* C2: at most one submit() is suspended on its request at any time, and
\* uploading is true for as long as it is.
C2_AtMostOneInFlight ==
    /\ Len(inflight) <= 1
    /\ Len(inflight) = 1 => uploading

\* C2 witness: a user event (a reset from the preview block) has run while the
\* POST was in flight.
C2_Witness ==
    /\ Len(inflight) = 1
    /\ inflight[1].pc = "fetch"
    /\ lastOp.name = "ClickPreviewClear"
    /\ uploading

\* C3: uploading is true exactly while a submit() invocation is suspended (it
\* becomes true when the invocation starts and false when it returns, on every
\* exit path), and every Uploading state is followed by an Idle state.
C3_UploadingReturnsToIdle ==
    /\ [](uploading <=> Len(inflight) > 0)
    /\ (uploading ~> ~uploading)

\* C3 witness: a submit() has returned through its catch block (HTTP 500) and
\* the state is Idle.
C3_Witness ==
    /\ lastOp.name = "FetchSettled"
    /\ error = "HTTP 500"
    /\ Len(inflight) = 0
    /\ ~uploading

\* C4: submit() called with file = null sets the 'no file' message, which is
\* not empty, and does nothing else: no request, no navigation, uploading and
\* the suspended invocations as they were.
C4_SubmitWithoutFile ==
    [][(file = NULL /\ lastOp'.name \in SubmitOps)
          => /\ error' = NoFileMsg
             /\ error' # ""
             /\ effects' = <<>>
             /\ UNCHANGED <<uploading, inflight, file, previewUrl, live>>]_vars

\* C4 witness: submit() has been called with no file, in the Idle state.
C4_Witness ==
    /\ lastOp.name = "CallSubmit"
    /\ file = NULL
    /\ error = NoFileMsg
    /\ ~uploading
    /\ Len(effects) = 0

\* C5 as stated: after a rejected candidate an Error Message is set and no
\* Candidate File is set, whatever was held before.
C5_Original ==
    \A f \in Files :
        (Acquired(f) /\ ~PolicyAccepts(f)) => (error # "" /\ file = NULL)

\* C5 amended: after a rejected candidate an Error Message is set and the
\* Candidate File is what it was before the call (unset if none was held).
C5_RejectionSetsError ==
    [][\A f \in Files :
          (lastOp'.name \in AcquireOps /\ lastOp'.f = f /\ ~PolicyAccepts(f))
              => /\ error' \in {TypeMsg, SizeMsg}
                 /\ error' # ""
                 /\ file' = file]_vars

\* C5 witness: a candidate has been rejected with no file held.
C5_Witness ==
    /\ \E f \in Files : Acquired(f) /\ ~PolicyAccepts(f)
    /\ file = NULL
    /\ error # ""

\* C6: a rejected candidate changes the Error Message only: file, previewUrl
\* and the live URLs are as before and nothing is revoked.
C6_RejectionChangesErrorOnly ==
    [][\A f \in Files :
          (lastOp'.name \in AcquireOps /\ lastOp'.f = f /\ ~PolicyAccepts(f))
              => /\ UNCHANGED <<file, previewUrl, live, nextUrl, uploading, inflight>>
                 /\ effects' = <<>>]_vars

\* C6 witness: an accepted 2 MiB PNG and its live preview have survived a
\* rejected 12 MiB JPEG.
C6_Witness ==
    /\ Acquired(File("image/jpeg", 12 * 1024 * 1024))
    /\ file = File("image/png", 2 * 1024 * 1024)
    /\ previewUrl # NullUrl
    /\ previewUrl \in live
    /\ error = SizeMsg

\* C7: a candidate is accepted (stored, with a fresh live preview and no
\* message) iff its type is one of the three and its size is at most 10 MiB;
\* otherwise it is rejected with a message, and an oversize file of an allowed
\* type gets the message that states the 10MB limit.
C7_AcceptedIffPolicy ==
    \A f \in Files :
        Acquired(f) =>
            /\ PolicyAccepts(f) =>
                  /\ file = f
                  /\ error = ""
                  /\ OfKind(effects, "create") = <<Create(previewUrl)>>
                  /\ previewUrl \in live
            /\ ~PolicyAccepts(f) =>
                  /\ file # f
                  /\ error # ""
                  /\ OfKind(effects, "create") = <<>>
            /\ (f.size > 10 * 1024 * 1024 /\ f.type \in {"image/jpeg", "image/png", "image/webp"})
                  => error = "file larger than 10MB"

\* C7 witness: a PNG of 10 MiB + 1 byte has been rejected for its size while
\* the JPEG of exactly 10 MiB accepted before it is held.
C7_Witness ==
    /\ Acquired(File("image/png", 10 * 1024 * 1024 + 1))
    /\ file = File("image/jpeg", 10 * 1024 * 1024)
    /\ error = "file larger than 10MB"

\* C8 as stated: while uploading is true no step is a reset or a submit.
C8_NoResetWhileUploading ==
    [][uploading => lastOp'.name \notin (ResetOps \cup SubmitOps)]_vars

\* C9 as stated: an acquisition event without a file changes none of error,
\* file, previewUrl and uploading.
C9_Original ==
    [][(lastOp'.name \in AcquireOps /\ lastOp'.f = NULL)
          => UNCHANGED <<error, file, previewUrl, uploading>>]_vars

\* C9 amended: an acquisition event without a file clears the Error Message
\* and changes nothing else: file, previewUrl, uploading, the live URLs and the
\* suspended invocations are as before and there is no side effect.
C9_EmptyAcquisitionClearsErrorOnly ==
    [][(lastOp'.name \in AcquireOps /\ lastOp'.f = NULL)
          => /\ error' = ""
             /\ UNCHANGED <<file, previewUrl, uploading, live, nextUrl, inflight>>
             /\ effects' = <<>>]_vars

\* C9 witness: a picker change without a file has run while a file and its
\* preview are held.
C9_Witness ==
    /\ lastOp = Op("onPick", NULL)
    /\ file # NULL
    /\ previewUrl \in live
    /\ error = ""

\* C10: reset() leaves error empty, file null and previewUrl null and revokes
\* the handle it found, if any; a reset() right after a reset() changes nothing
\* and revokes nothing.
C10_ResetIdempotent ==
    [][lastOp'.name \in ResetOps
          => /\ error' = ""
             /\ file' = NULL
             /\ previewUrl' = NullUrl
             /\ live' = {}
             /\ OfKind(effects', "revoke")
                    = (IF previewUrl # NullUrl THEN <<Revoke(previewUrl)>> ELSE <<>>)
             /\ lastOp.name \in ResetOps
                    => /\ UNCHANGED <<error, file, previewUrl, uploading, dragActive,
                                      inflight, live, nextUrl>>
                       /\ OfKind(effects', "revoke") = <<>>]_vars

\* C10 witness: reset() has been called twice in a row.
C10_Witness ==
    /\ lastOp.name = "CallReset"
    /\ prevOp = "CallReset"
    /\ file = NULL
    /\ previewUrl = NullUrl
    /\ Len(effects) = 0

\* What the last step's await delivered was a failure of the request.
Failed(ans) ==
    \/ ans.kind \in {"throw", "null"}
    \/ ans.kind = "response" /\ ~(ans.status \in 200..299)

\* The gotos and the picker openings of the last step.
Gotos == OfKind(effects, "goto")
Dialogs == OfKind(effects, "dialog")

\* C11: a response with a non-success status is never parsed (no res.json()),
\* causes no navigation, and leaves the message "HTTP <status>" in error.
C11_NonSuccessStatus ==
    (lastOp.name = "FetchSettled" /\ answer.kind = "response"
        /\ ~(answer.status \in 200..299))
        => /\ OfKind(effects, "json") = <<>>
           /\ Gotos = <<>>
           /\ error = "HTTP " \o ToString(answer.status)
           /\ error # ""
           /\ \A i \in 1..Len(inflight) : inflight[i].pc # "json"

\* C11 witness: the service has answered 500.
C11_Witness ==
    /\ lastOp.name = "FetchSettled"
    /\ answer = Responded(500)
    /\ error = "HTTP 500"
    /\ Len(effects) = 0

\* C12: a success response that parses to an object navigates whatever fields
\* are missing, each missing field read back as the empty string, and the step
\* does not touch error.
C12_MissingFieldsDefault ==
    [][(lastOp'.name = "JsonSettled" /\ answer'.kind = "data")
          => /\ error' = error
             /\ Len(OfKind(effects', "goto")) = 1
             /\ LET d == answer'.data
                    q == SearchParams(OfKind(effects', "goto")[1].to.query)
                IN  /\ Len(q) = 3
                    /\ d.label.t = "undefined" => q[1].value = <<>>
                    /\ d.prob.t = "undefined" => q[2].value = <<>>
                    /\ d.request_id.t = "undefined" => q[3].value = <<>>]_vars

\* C12 witness: a success response with none of the three fields has navigated.
C12_Witness ==
    /\ lastOp.name = "JsonSettled"
    /\ answer = Parsed(NoData)
    /\ Len(Gotos) = 1
    /\ Join(Gotos[1].to.query) = "label=&prob=&id="

\* C13: a successful submit() calls goto() exactly once, on /result, with the
\* parameters label, prob, id in this order carrying the response's label, its
\* stringified prob and its request_id; {crack, 0.87, abc123} gives
\* label=crack&prob=0.87&id=abc123; no other step navigates.
C13_NavigationParameters ==
    /\ (lastOp.name = "JsonSettled" /\ answer.kind = "data")
          => /\ Len(Gotos) = 1
             /\ Gotos[1].to.path = "/result"
             /\ LET d == answer.data
                    q == SearchParams(Gotos[1].to.query)
                IN  /\ Len(q) = 3
                    /\ Join(q[1].name) = "label"
                    /\ Join(q[2].name) = "prob"
                    /\ Join(q[3].name) = "id"
                    /\ d.label.t = "string" => q[1].value = d.label.s
                    /\ d.prob.t = "number" => parseFloat(q[2].value) = Number(d.prob.n)
                    /\ d.request_id.t = "string" => q[3].value = d.request_id.s
                    /\ (Join(d.label.s) = "crack" /\ d.prob = Num(87)
                            /\ Join(d.request_id.s) = "abc123")
                          => Join(Gotos[1].to.query) = "label=crack&prob=0.87&id=abc123"
    /\ ~(lastOp.name = "JsonSettled" /\ answer.kind = "data") => Gotos = <<>>

\* C13 witness: the response {crack, 0.87, abc123} has navigated.
C13_Witness ==
    /\ lastOp.name = "JsonSettled"
    /\ answer.kind = "data"
    /\ Len(Gotos) = 1
    /\ Gotos[1].to.path = "/result"
    /\ Join(Gotos[1].to.query) = "label=crack&prob=0.87&id=abc123"

\* C14 as stated: load() gives back the label submit() sent and the prob it
\* sent, and prob = 0 when the response had none.
C14_LoadRoundTrip ==
    (lastOp.name = "load" /\ answer.kind = "data")
        => /\ result.loaded
           /\ result.label = (IF answer.data.label.t = "undefined" THEN <<>>
                              ELSE answer.data.label.s)
           /\ result.prob = (IF answer.data.prob.t = "undefined" THEN Number(0)
                             ELSE Number(answer.data.prob.n))

\* C15: a failure after the request started leaves its message, which is not
\* empty, in error, navigates nowhere, and submit() returns: the invocation is
\* gone and the state is Idle.
C15_FailuresSurfaceLocally ==
    (lastOp.name \in SettleOps /\ Failed(answer))
        => /\ error # ""
           /\ error = (IF answer.kind = "response" THEN "HTTP " \o ToString(answer.status)
                       ELSE IF answer.kind = "null" THEN NullBodyThrows.message
                       ELSE answer.message)
           /\ Gotos = <<>>
           /\ Len(inflight) = 0
           /\ ~uploading

\* C15 witness: the body was the JSON text null and building the navigation
\* threw.
C15_Witness ==
    /\ lastOp.name = "JsonSettled"
    /\ answer = ParsedNull
    /\ error = NullBodyThrows.message
    /\ ~uploading

\* C16: no step of submit() (its start, with or without a file, and its
\* continuations, on success and on failure) changes file, previewUrl, the live
\* URLs or dragActive, and none revokes or creates a URL.
C16_SubmitKeepsFileAndPreview ==
    [][lastOp'.name \in (SubmitOps \cup SettleOps)
          => /\ UNCHANGED <<file, previewUrl, live, nextUrl, dragActive>>
             /\ OfKind(effects', "revoke") = <<>>
             /\ OfKind(effects', "create") = <<>>]_vars

\* C16 witness: a submit() has succeeded and the file and its preview are held.
C16_Witness ==
    /\ lastOp.name = "JsonSettled"
    /\ answer.kind = "data"
    /\ file # NULL
    /\ previewUrl \in live
    /\ Len(Gotos) = 1

\* C17: a click on the dropzone, Enter or Space on it, and a click on the
\* nested clear button each show the picker exactly once, although the click
\* that fileInput.click() dispatches bubbles back into openFileDialog; no other
\* step shows it.
C17_DialogOncePerInteraction ==
    LET opens == \/ lastOp.name \in {"ClickDropzone", "ClickPreviewClear"}
                 \/ lastOp.name = "KeydownDropzone" /\ lastOp.key \in {"Enter", " "}
    IN  Len(Dialogs) = (IF opens THEN 1 ELSE 0)

\* C17 witness: a click on the nested clear button has revoked the preview and
\* shown the picker once, fileInput.click() having been entered twice.
C17_Witness ==
    /\ lastOp.name = "ClickPreviewClear"
    /\ Len(OfKind(effects, "revoke")) = 1
    /\ Len(OfKind(effects, "click")) = 2
    /\ Len(Dialogs) = 1

\* C18: previewUrl is non-null exactly when file is non-null.
C18_PreviewIffFile ==
    (previewUrl # NullUrl) <=> (file # NULL)

\* C18 witness: a file and its preview are held again after a reset.
C18_Witness ==
    /\ lastOp.name \in AcquireOps
    /\ prevOp \in ResetOps
    /\ file # NULL
    /\ previewUrl # NullUrl

\* C19: the stored file, the file of every suspended submit() and the file of
\* every request issued satisfy the Acceptance Policy.
C19_StoredFileConforms ==
    /\ file # NULL => PolicyAccepts(file)
    /\ \A i \in 1..Len(inflight) : PolicyAccepts(inflight[i].file)
    /\ \A i \in 1..Len(effects) : effects[i].kind = "fetch" => PolicyAccepts(effects[i].file)

\* C19 witness: a request carrying a file of exactly 10 MiB has been issued.
C19_Witness ==
    /\ lastOp.name = "ClickPredict"
    /\ Len(OfKind(effects, "fetch")) = 1
    /\ effects[1].file.size = 10 * 1024 * 1024
    /\ effects[1].file = file

\* C20: the request carries the file held when submit() was called and an
\* acquisition leaves the suspended invocations alone; a failed completion
\* writes its message over whatever error held, a successful one navigates.
C20_AcquisitionDuringUpload ==
    [][/\ (lastOp'.name \in SubmitOps /\ file # NULL)
            => /\ inflight' = Append(inflight, [file |-> file, pc |-> "fetch"])
               /\ effects' = <<Fetch(file)>>
       /\ lastOp'.name \in AcquireOps => UNCHANGED <<inflight, uploading>>
       /\ lastOp'.name \in SettleOps
            => /\ \A i \in 1..Len(inflight') :
                     \E j \in 1..Len(inflight) : inflight'[i].file = inflight[j].file
               /\ Failed(answer')
                     => error' = (IF answer'.kind = "response"
                                    THEN "HTTP " \o ToString(answer'.status)
                                  ELSE IF answer'.kind = "null" THEN NullBodyThrows.message
                                  ELSE answer'.message)
               /\ answer'.kind = "data" => Len(OfKind(effects', "goto")) = 1]_vars

\* C20 witness: while a request is in flight a drop has replaced the file and
\* the preview; the request still carries the file it was issued with.
C20_Witness ==
    /\ lastOp.name = "onDrop"
    /\ uploading
    /\ Len(inflight) = 1
    /\ file = lastOp.f
    /\ inflight[1].file # file
    /\ Len(OfKind(effects, "create")) = 1

====
